---- MODULE Spec2Model ----
(***************************************************************************)
(* Skill execution graph of the workspace: the Agent skill (agentNode,     *)
(* setupAgent and its inner llm/tools workflow) and the ImageGeneration    *)
(* skill (generateImage and its stream scanner).                           *)
(***************************************************************************)
EXTENDS Integers, Sequences, FiniteSets, TLC

\* ------------------------------------------------------------------ bounds

\* Largest number of tool calls a single model response carries.
MaxToolCalls == 2
\* Largest number of request messages built by preprocessing.
MaxRequestMessages == 2
\* The stream-read timeout (6000000 ms) counted in ticks of the wall clock.
TimeoutTicks == 2
\* Largest number of sources a crawl of URLs delivers.
MaxUrls == 2
\* Largest magnitude of the remaining token budget.
MaxTokens == 1
\* Number of invocations of the Agent skill that run interleaved.
MaxInvocations == 3

\* Calls of the debounced deleteCanvas in one run.
MaxCalls == 3

\* Runs of onOk in one run.
MaxSubmits == 3

\* ------------------------------------------------------- program constants

\* app.invoke(..., { recursionLimit: 100 })
recursionLimit == 100

END == "__end__"

START == "__start__"

VARIABLES
  \* ---- Agent.agentNode
  agentPc,         \* position of agentNode: preprocess, setup, workflow, finally, done
  messages,        \* MessagesAnnotation state of the inner workflow
  requestMessages, \* the messages built by commonPreprocess
  toolCallsPerResponse, \* how many tool calls the bound model puts in a tool-requesting response
  wfNext,          \* node the inner workflow runs next: llm, tools, END ("none" outside)
  tasks,           \* the nodes scheduled for the current superstep of the inner workflow
  step,            \* supersteps (llm or tools) the inner workflow has executed
  lastNode,        \* last node of the inner workflow that was started
  llmInput,        \* message list handed to the last model.invoke
  clientCreated,   \* a MultiServerMCPClient was constructed in this invocation
  closeCount,      \* calls of client.close()
  pending,         \* completion of the try block travelling through finally
  outcome,         \* what agentNode delivered to the outer graph
  result,          \* messages returned by agentNode
  \* ---- ImageGeneration.generateImage
  imgPc,           \* position of generateImage: start, request, loop, awaitRead, afterLoop, done
  query,           \* state.query
  apiKey,          \* tplConfig.apiKey.value
  body,            \* bytes of the response body the service sends when asked
  streamPos,       \* bytes of body already delivered by reader.read()
  streamStalled,   \* the service stopped sending without closing the stream
  done,            \* result.done of the last read
  held,            \* bytes TextDecoder holds back between chunks
  fullResponse,    \* the decoded text accumulated so far
  imageUrl,
  genId,
  elapsed,         \* Date.now() - startTime, in ticks
  fetches,         \* HTTP requests issued
  events,          \* events emitted through emitEvent, in order
  imgOutcome,      \* none, returned, thrown
  imgError,        \* message of the error that ended the run
  imgResult,       \* messages returned by generateImage
  \* ---- Agent.commonPreprocess
  prePc,           \* position of commonPreprocess: processQuery, contextUrls, queryUrls,
                   \* prepare, build, done
  projectId,       \* config.configurable.project?.projectId ("" when undefined)
  enabledKnowledgeBase, \* runtimeConfig?.enabledKnowledgeBase
  contextUrls,     \* config.configurable.urls, the url of each item
  isModelContextLenSupport, \* checkModelContextLenSupport(modelConfigMap.chat)
  hasContext,      \* processQuery: the query mentions context
  remainingTokens, \* processQuery: the remaining token budget
  contextUrlSources, \* sources crawled from the context URLs
  queryUrlSources, \* sources crawled from the URLs of the query
  urlSources,      \* [...contextUrlSources, ...queryUrlSources]
  prepareCalls,    \* arguments of the calls of prepareContext, in order
  context,         \* the context string
  sources,         \* the sources returned by commonPreprocess
  builderCalls,    \* arguments of the calls of buildFinalRequestMessages, in order
  preOutcome,      \* none, returned, thrown
  \* ---- interleaved invocations of Agent.agentNode
  invPc,           \* position of each invocation: setup, llm, tools, finally, done
  invClient,       \* the client bound in each invocation (0: none)
  clients,         \* the MultiServerMCPClient objects constructed so far
  uses,            \* the model and tool steps taken: by which invocation, on which client
  \* ---- useDeleteCanvas
  isRemoving,      \* the isRemoving state of the hook, as last set
  closureIsRemoving, \* isRemoving as captured by the deleteCanvas of the latest render
  debounce,        \* useDebouncedCallback: idle, waiting (inside the wait), pending
                   \* (inside the wait with a trailing invocation due)
  lastArgs,        \* the canvasId of the trailing invocation due ("" when none)
  delCalls,        \* the invocations of deleteCanvas, in order
  currentCanvasId, \* localStorage.getItem('currentCanvasId') ("" when absent)
  userCalls,       \* calls of the debounced deleteCanvas made so far
  listReloads,     \* calls of getCanvasList
  successToasts,   \* calls of message.success
  location,        \* the canvas last navigated to (<<>> before any navigation)
  \* ---- NewKnowledgeModal.onOk
  confirmLoading,  \* the confirmLoading state of the modal
  showNewKnowledgeModal, \* importKnowledgeModal.showNewKnowledgeModal
  reloadKnowledgeBaseList, \* reloadListState.reloadKnowledgeBaseList
  editProject,     \* importKnowledgeModal.editProject is set
  submits,         \* the runs of onOk, in order
  projectRequests, \* the createProject and updateProject requests issued, in order
  modalToasts      \* the Message.error and Message.success calls, in order

agentVars == <<agentPc, messages, requestMessages, toolCallsPerResponse, wfNext, tasks, step,
               lastNode, llmInput, clientCreated, closeCount, pending, outcome, result>>

imageVars == <<imgPc, query, apiKey, body, streamPos, streamStalled, done, held,
               fullResponse, imageUrl, genId, elapsed, fetches, events, imgOutcome,
               imgError, imgResult>>

preVars == <<prePc, projectId, enabledKnowledgeBase, contextUrls, isModelContextLenSupport,
             hasContext, remainingTokens, contextUrlSources, queryUrlSources, urlSources,
             prepareCalls, context, sources, builderCalls, preOutcome>>

multiVars == <<invPc, invClient, clients, uses>>

deleteVars == <<isRemoving, closureIsRemoving, debounce, lastArgs, delCalls, currentCanvasId,
                userCalls, listReloads, successToasts, location>>

modalVars == <<confirmLoading, showNewKnowledgeModal, reloadKnowledgeBaseList, editProject,
               submits, projectRequests, modalToasts>>

vars == <<agentVars, imageVars, preVars, multiVars, deleteVars, modalVars>>

\* ------------------------------------------------------------ Agent skill

RequestMessage == [type |-> "human", present |-> FALSE, calls |-> 0]

\* An AIMessage; tool_calls is absent (present = FALSE) or a list of calls entries.
AIMessage(present, calls) == [type |-> "ai", present |-> present, calls |-> calls]

ToolMessage == [type |-> "tool", present |-> FALSE, calls |-> 0]

\* The answers model.invoke can resolve with.
LlmResponses ==
  {AIMessage(FALSE, 0), AIMessage(TRUE, 0), AIMessage(TRUE, toolCallsPerResponse)}

Last(s) == s[Len(s)]

\* aiMessage.tool_calls && aiMessage.tool_calls.length > 0
HasToolCalls(m) == m.present /\ m.calls > 0

\* The conditional edge after llm.
RouteAlwaysTools(msgs) == "tools"

RouteAfterLlm(msgs) == IF HasToolCalls(Last(msgs)) THEN "tools" ELSE END

\* The reducer of the messages channel of MessagesAnnotation: an update is
\* appended to the list.
LastValueChannel(left, right) == right

messagesStateReducer(left, right) == left \o right

\* The nodes the edges of the workflow schedule once node has written msgs:
\* addEdge(START, 'llm'), addEdge('tools', 'llm') and the conditional edge of llm.
TriggeredWithSecondStartEdge(node, msgs) ==
  IF node = START THEN {"llm", "tools"}
  ELSE IF node = "tools" THEN {"llm"}
  ELSE {RouteAfterLlm(msgs)} \ {END}

Triggered(node, msgs) ==
  IF node = START THEN {"llm"}
  ELSE IF node = "tools" THEN {"llm"}
  ELSE {RouteAfterLlm(msgs)} \ {END}

\* ToolNode: one ToolMessage per tool call of the last message.
NoToolResults(msgs) == <<>>

ToolResults(msgs) == [i \in 1..Last(msgs).calls |-> ToolMessage]

AgentInit ==
  /\ agentPc = "preprocess"
  /\ messages = <<>>
  /\ requestMessages = <<>>
  /\ toolCallsPerResponse \in 1..MaxToolCalls
  /\ wfNext = "none"
  /\ tasks = {}
  /\ step = 0
  /\ lastNode = "none"
  /\ llmInput = <<>>
  /\ clientCreated = FALSE
  /\ closeCount = 0
  /\ pending = "none"
  /\ outcome = "none"
  /\ result = <<>>

\* agentNode up to the call of setupAgent: commonPreprocess builds the request
\* messages, or rejects.
Preprocess ==
  /\ UNCHANGED <<imageVars, preVars, multiVars, deleteVars, modalVars>>
  /\ agentPc = "preprocess"
  /\ \/ \E n \in 1..MaxRequestMessages :
          /\ requestMessages' = [i \in 1..n |-> RequestMessage]
          /\ agentPc' = "setup"
          /\ UNCHANGED outcome
     \/ /\ agentPc' = "done"
        /\ outcome' = "PreprocessError"
        /\ UNCHANGED requestMessages
  /\ UNCHANGED <<messages, toolCallsPerResponse, wfNext, tasks, step, lastNode, llmInput,
                 clientCreated, closeCount, pending, result>>

\* What setupAgent rejects with when step r of it failed: listMcpServers rejects
\* with its own error, everything inside the try block is rethrown as
\* 'Failed to initialize MCP tools'.
OriginalError(r) == r

SetupFailure(r) == IF r = "listFails" THEN "ListServersError" ELSE "MCPInitError"

\* setupAgent: its failures after the client was constructed are rethrown as
\* 'Failed to initialize MCP tools'; the client is handed out only on success.
SetupAgent ==
  /\ UNCHANGED <<imageVars, preVars, multiVars, deleteVars, modalVars>>
  /\ agentPc = "setup"
  /\ \E r \in {"listFails", "initFails", "getToolsFails", "noTools", "ok"} :
       /\ clientCreated' = (r # "listFails")
       /\ IF r = "ok"
            THEN /\ agentPc' = "workflow"
                 /\ messages' = requestMessages
                 /\ wfNext' = "llm"
                 /\ tasks' = Triggered(START, requestMessages)
                 /\ UNCHANGED outcome
            ELSE /\ agentPc' = "done"
                 /\ outcome' = SetupFailure(r)
                 /\ UNCHANGED <<messages, wfNext, tasks>>
  /\ UNCHANGED <<requestMessages, toolCallsPerResponse, step, lastNode, llmInput,
                 closeCount, pending, result>>

\* The llm node with its conditional edge: model.invoke(nodeState.messages).
LlmNode ==
  /\ UNCHANGED <<imageVars, preVars, multiVars, deleteVars, modalVars>>
  /\ agentPc = "workflow"
  /\ "llm" \in tasks
  /\ step < recursionLimit
  /\ lastNode' = "llm"
  /\ llmInput' = messages
  /\ \/ \E response \in LlmResponses :
          /\ messages' = messagesStateReducer(messages, <<response>>)
          /\ wfNext' = RouteAfterLlm(messages')
          /\ tasks' = Triggered("llm", messages')
          /\ step' = step + 1
          /\ UNCHANGED <<agentPc, pending>>
     \/ /\ agentPc' = "finally"
        /\ pending' = "ModelError"
        /\ UNCHANGED <<messages, wfNext, tasks, step>>
  /\ UNCHANGED <<requestMessages, toolCallsPerResponse, clientCreated, closeCount,
                 outcome, result>>

\* The tools node and its edge back to llm.
ToolsNode ==
  /\ UNCHANGED <<imageVars, preVars, multiVars, deleteVars, modalVars>>
  /\ agentPc = "workflow"
  /\ "tools" \in tasks
  /\ step < recursionLimit
  /\ lastNode' = "tools"
  /\ \/ /\ messages' = messagesStateReducer(messages, ToolResults(messages))
        /\ wfNext' = "llm"
        /\ tasks' = Triggered("tools", messages')
        /\ step' = step + 1
        /\ UNCHANGED <<agentPc, pending>>
     \/ /\ agentPc' = "finally"
        /\ pending' = "ToolError"
        /\ UNCHANGED <<messages, wfNext, tasks, step>>
  /\ UNCHANGED <<requestMessages, toolCallsPerResponse, llmInput, clientCreated,
                 closeCount, outcome, result>>

\* How the workflow ends when a node is still due after recursionLimit supersteps.
StepLimitSilent == "returned"

StepLimitCompletion == "GraphRecursionError"

\* app.invoke rejects once recursionLimit supersteps were executed and a node is due.
OutOfSteps ==
  /\ UNCHANGED <<imageVars, preVars, multiVars, deleteVars, modalVars>>
  /\ agentPc = "workflow"
  /\ tasks # {}
  /\ step >= recursionLimit
  /\ agentPc' = "finally"
  /\ pending' = StepLimitCompletion
  /\ result' = IF StepLimitCompletion = "returned" THEN messages ELSE result
  /\ UNCHANGED <<messages, requestMessages, toolCallsPerResponse, wfNext, tasks, step, lastNode,
                 llmInput, clientCreated, closeCount, outcome>>

\* app.invoke resolves: return { messages: result.messages }.
WorkflowEnd ==
  /\ UNCHANGED <<imageVars, preVars, multiVars, deleteVars, modalVars>>
  /\ agentPc = "workflow"
  /\ tasks = {}
  /\ agentPc' = "finally"
  /\ pending' = "returned"
  /\ result' = messages
  /\ UNCHANGED <<messages, requestMessages, toolCallsPerResponse, wfNext, tasks, step, lastNode,
                 llmInput, clientCreated, closeCount, outcome>>

\* A close in a catch block that then runs the workflow on.
CloseAndCarryOn ==
  /\ UNCHANGED <<imageVars, preVars, multiVars, deleteVars, modalVars>>
  /\ agentPc = "finally"
  /\ closeCount' = closeCount + 1
  /\ agentPc' = IF pending = "returned" \/ closeCount > 0 THEN "done" ELSE "workflow"
  /\ outcome' = IF pending = "returned" \/ closeCount > 0 THEN pending ELSE outcome
  /\ UNCHANGED <<messages, requestMessages, toolCallsPerResponse, wfNext, tasks, step, lastNode,
                 llmInput, clientCreated, pending, result>>

\* finally { client.close(); } and the delivery of the try block's completion.
FinallyNoClose ==
  /\ UNCHANGED <<imageVars, preVars, multiVars, deleteVars, modalVars>>
  /\ agentPc = "finally"
  /\ agentPc' = "done"
  /\ outcome' = pending
  /\ UNCHANGED <<messages, requestMessages, toolCallsPerResponse, wfNext, tasks, step, lastNode,
                 llmInput, clientCreated, closeCount, pending, result>>

Finally ==
  /\ UNCHANGED <<imageVars, preVars, multiVars, deleteVars, modalVars>>
  /\ agentPc = "finally"
  /\ closeCount' = closeCount + 1
  /\ agentPc' = "done"
  /\ outcome' = pending
  /\ UNCHANGED <<messages, requestMessages, toolCallsPerResponse, wfNext, tasks, step, lastNode,
                 llmInput, clientCreated, pending, result>>

AgentNext ==
  \/ Preprocess
  \/ SetupAgent
  \/ LlmNode
  \/ ToolsNode
  \/ OutOfSteps
  \/ WorkflowEnd
  \/ Finally

\* ------------------------------ interleaved invocations of Agent.agentNode

\* agentNode as far as the tool client is concerned: what each of several
\* invocations, interleaved at their awaits, does with the client it holds.
Invocations == 1..MaxInvocations

\* A field of the skill object, written by every invocation.
LastCreatedClient(i) == Len(clients)

\* const { model, toolNode, client } = await this.setupAgent(user): the binding
\* is local to the invocation.
ClientOf(i) == invClient[i]

\* A step of invocation i on the client it works with.
Use(i) ==
  [inv |-> i, client |-> ClientOf(i), open |-> clients[ClientOf(i)].closedBy = {}]

MultiInit ==
  /\ invPc = [i \in Invocations |-> "setup"]
  /\ invClient = [i \in Invocations |-> 0]
  /\ clients = <<>>
  /\ uses = {}

\* setupAgent: a new client per call; handed out only when the tools were loaded.
InvSetupAgent(i) ==
  /\ UNCHANGED <<agentVars, imageVars, preVars, deleteVars, modalVars>>
  /\ invPc[i] = "setup"
  /\ \E r \in {"listFails", "initFails", "ok"} :
       /\ clients' = IF r = "listFails" THEN clients
                     ELSE Append(clients, [creator |-> i, closedBy |-> {}])
       /\ invClient' = IF r = "ok" THEN [invClient EXCEPT ![i] = Len(clients')]
                       ELSE invClient
       /\ invPc' = [invPc EXCEPT ![i] = IF r = "ok" THEN "llm" ELSE "done"]
  /\ UNCHANGED uses

\* The llm node of invocation i: the model bound to the tools of its client.
InvLlmNode(i) ==
  /\ UNCHANGED <<agentVars, imageVars, preVars, deleteVars, modalVars>>
  /\ invPc[i] = "llm"
  /\ uses' = uses \cup {Use(i)}
  /\ \E to \in {"tools", "finally"} : invPc' = [invPc EXCEPT ![i] = to]
  /\ UNCHANGED <<invClient, clients>>

\* The tools node of invocation i: the tools of its client.
InvToolsNode(i) ==
  /\ UNCHANGED <<agentVars, imageVars, preVars, deleteVars, modalVars>>
  /\ invPc[i] = "tools"
  /\ uses' = uses \cup {Use(i)}
  /\ \E to \in {"llm", "finally"} : invPc' = [invPc EXCEPT ![i] = to]
  /\ UNCHANGED <<invClient, clients>>

\* finally { client.close(); }
InvFinally(i) ==
  /\ UNCHANGED <<agentVars, imageVars, preVars, deleteVars, modalVars>>
  /\ invPc[i] = "finally"
  /\ clients' = [clients EXCEPT ![ClientOf(i)].closedBy = @ \cup {i}]
  /\ invPc' = [invPc EXCEPT ![i] = "done"]
  /\ UNCHANGED <<invClient, uses>>

MultiNext ==
  \/ \E i \in Invocations : InvSetupAgent(i)
  \/ \E i \in Invocations : InvLlmNode(i)
  \/ \E i \in Invocations : InvToolsNode(i)
  \/ \E i \in Invocations : InvFinally(i)

\* ------------------------------------------------ Agent.commonPreprocess

\* isValidUrl(url) of the urls the runs hand in.
ValidUrls == {"https://a.example", "https://b.example"}

\* url && isValidUrl(url)
IsValidUrl(url) == url # "" /\ url \in ValidUrls

\* config.configurable.urls of the runs, as the url of each item.
ContextUrlLists ==
  {<<>>, <<"">>, <<"not a url">>, <<"https://a.example">>,
   <<"https://a.example", "", "https://b.example">>}

\* All sequences over S of length at most n.
SeqsUpTo(S, n) == UNION {[1..k -> S] : k \in 0..n}

\* What crawlExtractedUrls and extractAndCrawlUrls can resolve with.
ContextSourceLists == SeqsUpTo({"A", "B"}, MaxUrls)

QuerySourceLists == SeqsUpTo({"C", "D"}, MaxUrls)

\* !!projectId && !!runtimeConfig?.enabledKnowledgeBase
SearchWheneverProject == projectId # ""

enableKnowledgeBaseSearch == projectId # "" /\ enabledKnowledgeBase

\* const urlSources = [...contextUrlSources, ...queryUrlSources]
QuerySourcesFirst(fromContext, fromQuery) == fromQuery \o fromContext

MergeUrlSources(fromContext, fromQuery) == fromContext \o fromQuery

\* (hasContext || hasUrlSources || enableKnowledgeBaseSearch) && remainingTokens > 0
NeedsContextWhateverBudget(mentioned, merged, searchEnabled, budget) ==
  mentioned \/ Len(merged) > 0 \/ searchEnabled

needPrepareContext(mentioned, merged, searchEnabled, budget) ==
  (mentioned \/ Len(merged) > 0 \/ searchEnabled) /\ budget > 0

\* needPrepareContext: needPrepareContext && isModelContextLenSupport
ContextAwareWheneverPrepared(need, supported) == need

UseContextAwareBuilder(need, supported) == need /\ supported

\* What prepareContext can resolve with: contextStr and sources.
PreparedResults ==
  {[contextStr |-> c, sources |-> src] :
     c \in {"", "prepared context"},
     src \in {<<>>, urlSources, <<"knowledge base hit">> \o urlSources}}

\* commonPreprocess is entered with the configuration of the invocation.
PreInit ==
  /\ prePc = "processQuery"
  /\ projectId \in {"", "project-1"}
  /\ enabledKnowledgeBase \in BOOLEAN
  /\ contextUrls \in ContextUrlLists
  /\ isModelContextLenSupport \in BOOLEAN
  /\ hasContext = FALSE
  /\ remainingTokens = 0
  /\ contextUrlSources = <<>>
  /\ queryUrlSources = <<>>
  /\ urlSources = <<>>
  /\ prepareCalls = <<>>
  /\ context = ""
  /\ sources = <<>>
  /\ builderCalls = <<>>
  /\ preOutcome = "none"

\* An awaited call rejects: commonPreprocess rejects with it.
PreThrows ==
  /\ prePc' = "done"
  /\ preOutcome' = "thrown"

\* await processQuery(...)
ProcessQuery ==
  /\ UNCHANGED <<agentVars, imageVars, multiVars, deleteVars, modalVars>>
  /\ prePc = "processQuery"
  /\ \/ /\ hasContext' \in BOOLEAN
        /\ remainingTokens' \in (-MaxTokens)..MaxTokens
        /\ prePc' = "contextUrls"
        /\ UNCHANGED preOutcome
     \/ /\ PreThrows
        /\ UNCHANGED <<hasContext, remainingTokens>>
  /\ UNCHANGED <<projectId, enabledKnowledgeBase, contextUrls, isModelContextLenSupport,
                 contextUrlSources, queryUrlSources, urlSources, prepareCalls, context,
                 sources, builderCalls>>

\* The context URLs: the valid ones are crawled, when there is one.
CrawlContextUrls ==
  /\ UNCHANGED <<agentVars, imageVars, multiVars, deleteVars, modalVars>>
  /\ prePc = "contextUrls"
  /\ LET urls == SelectSeq(contextUrls, IsValidUrl)
     IN IF Len(contextUrls) > 0 /\ Len(urls) > 0
          THEN \/ /\ contextUrlSources' \in ContextSourceLists
                  /\ prePc' = "queryUrls"
                  /\ UNCHANGED preOutcome
               \/ /\ PreThrows
                  /\ UNCHANGED contextUrlSources
          ELSE /\ prePc' = "queryUrls"
               /\ UNCHANGED <<contextUrlSources, preOutcome>>
  /\ UNCHANGED <<projectId, enabledKnowledgeBase, contextUrls, isModelContextLenSupport,
                 hasContext, remainingTokens, queryUrlSources, urlSources, prepareCalls,
                 context, sources, builderCalls>>

\* await extractAndCrawlUrls(query, ...) and the merge of the URL sources.
ExtractAndCrawlUrls ==
  /\ UNCHANGED <<agentVars, imageVars, multiVars, deleteVars, modalVars>>
  /\ prePc = "queryUrls"
  /\ \/ /\ queryUrlSources' \in QuerySourceLists
        /\ urlSources' = MergeUrlSources(contextUrlSources, queryUrlSources')
        /\ prePc' = "prepare"
        /\ UNCHANGED preOutcome
     \/ /\ PreThrows
        /\ UNCHANGED <<queryUrlSources, urlSources>>
  /\ UNCHANGED <<projectId, enabledKnowledgeBase, contextUrls, isModelContextLenSupport,
                 hasContext, remainingTokens, contextUrlSources, prepareCalls, context,
                 sources, builderCalls>>

\* if (needPrepareContext) { preparedRes = await prepareContext(...); ... }
PrepareContext ==
  /\ UNCHANGED <<agentVars, imageVars, multiVars, deleteVars, modalVars>>
  /\ prePc = "prepare"
  /\ IF needPrepareContext(hasContext, urlSources, enableKnowledgeBaseSearch, remainingTokens)
       THEN /\ prepareCalls' =
                 Append(prepareCalls,
                        [maxTokens |-> remainingTokens,
                         enableMentionedContext |-> hasContext,
                         urlSources |-> urlSources,
                         enableKnowledgeBaseSearch |-> enableKnowledgeBaseSearch])
            /\ \/ \E preparedRes \in PreparedResults :
                    /\ context' = preparedRes.contextStr
                    /\ sources' = preparedRes.sources
                    /\ prePc' = "build"
                    /\ UNCHANGED preOutcome
               \/ /\ PreThrows
                  /\ UNCHANGED <<context, sources>>
       ELSE /\ prePc' = "build"
            /\ UNCHANGED <<prepareCalls, context, sources, preOutcome>>
  /\ UNCHANGED <<projectId, enabledKnowledgeBase, contextUrls, isModelContextLenSupport,
                 hasContext, remainingTokens, contextUrlSources, queryUrlSources, urlSources,
                 builderCalls>>

\* buildFinalRequestMessages({ ..., needPrepareContext, context, ... }) and
\* return { requestMessages, sources }.
BuildFinalRequestMessages ==
  /\ UNCHANGED <<agentVars, imageVars, multiVars, deleteVars, modalVars>>
  /\ prePc = "build"
  /\ builderCalls' =
       Append(builderCalls,
              [needPrepareContext |->
                 UseContextAwareBuilder(
                   needPrepareContext(hasContext, urlSources, enableKnowledgeBaseSearch,
                                      remainingTokens),
                   isModelContextLenSupport),
               context |-> context])
  /\ prePc' = "done"
  /\ preOutcome' \in {"returned", "thrown"}
  /\ UNCHANGED <<projectId, enabledKnowledgeBase, contextUrls, isModelContextLenSupport,
                 hasContext, remainingTokens, contextUrlSources, queryUrlSources, urlSources,
                 prepareCalls, context, sources>>

PreNext ==
  \/ ProcessQuery
  \/ CrawlContextUrls
  \/ ExtractAndCrawlUrls
  \/ PrepareContext
  \/ BuildFinalRequestMessages


\* ------------------------------------------------- ImageGeneration skill

\* Text is a sequence of one-character strings, the backquote written "BQ"; '' is <<>>.

\* !\[
LitBangBracket ==
  <<"!", "[">>

\* \]\((https:\/\/   (the group opens after the first two characters)
LitCloseOpenHttps ==
  <<"]", "(", "h", "t", "t", "p", "s", ":", "/", "/">>

\* The literal head of the gen_id pattern, up to and with its opening backquote.
LitGenId ==
  <<"g", "e", "n", "_", "i", "d", ":", " ", "BQ">>

\* genId || 'unknown'
Unknown ==
  <<"u", "n", "k", "n", "o", "w", "n">>

\* The two markers of the generation service's answer.
ImageMarker ==
  <<"!", "[", "x", "]", "(", "h", "t", "t", "p", "s", ":", "/", "/", "h", "o", "s",
    "t", "/", "i", "m", "g", ".", "p", "n", "g", ")">>

GenIdMarker ==
  <<"g", "e", "n", "_", "i", "d", ":", " ", "BQ", "a", "b", "c", "1", "2", "3", "BQ">>

HostImgUrl ==
  <<"h", "t", "t", "p", "s", ":", "/", "/", "h", "o", "s", "t", "/", "i", "m", "g",
    ".", "p", "n", "g">>

Abc123 ==
  <<"a", "b", "c", "1", "2", "3">>

\* A second image marker, and a gen_id marker with nothing between the backticks.
OtherImageMarker ==
  <<"!", "[", "y", "]", "(", "h", "t", "t", "p", "s", ":", "/", "/", "c", "d", "n",
    "/", "b", ".", "p", "n", "g", ")">>

EmptyGenIdMarker ==
  <<"g", "e", "n", "_", "i", "d", ":", " ", "BQ", "BQ">>

\* Bytes of a two-byte UTF-8 character, and what TextDecoder makes of them.
LeadByte == "C3"
ContByte == "A9"
TwoByteChar == "U+00E9"
ReplacementChar == "U+FFFD"

Progress ==
  <<">", " ", "5", "0", "%">>

\* Response bodies of the generation endpoint, as byte sequences.
BodyBoth == ImageMarker \o <<" ">> \o GenIdMarker
BodyIdFirst == GenIdMarker \o <<"\n">> \o ImageMarker \o <<"\n">>
BodyNoisy ==
  <<LeadByte, ContByte, "!", "[">> \o Progress \o <<"\n">> \o ImageMarker
    \o <<"\n", "(", ")">> \o GenIdMarker \o <<"BQ", ")">>
BodyUrlOnly == Progress \o ImageMarker
BodyIdOnly == GenIdMarker \o Progress
BodyNone == Progress
BodyTwoImages == ImageMarker \o OtherImageMarker \o GenIdMarker
BodyEmptyId == ImageMarker \o EmptyGenIdMarker \o GenIdMarker

\* The bodies that hold both markers of the stream parser's contract.
MarkedBodies == {BodyBoth, BodyIdFirst, BodyNoisy}

Bodies ==
  MarkedBodies \cup {BodyUrlOnly, BodyIdOnly, BodyNone, BodyTwoImages, BodyEmptyId, <<>>}

\* ---- text scanning, as String.prototype.match does it

Min(S) == CHOOSE x \in S : \A y \in S : x <= y

\* lit occurs in s at position i.
IsAt(s, i, lit) ==
  /\ i + Len(lit) - 1 <= Len(s)
  /\ s[i] = lit[1]
  /\ \A k \in 2..Len(lit) : s[i + k - 1] = lit[k]

\* The dot matches every character of s[a..b]: none is a line terminator.
DotsMatch(s, a, b) == \A k \in a..b : s[k] \notin {"\n", "\r"}

\* Ends e of a match of  (https:\/\/.*?)\)  whose group opens at g.
UrlEnds(s, g) ==
  {e \in (g + 8)..Len(s) : s[e] = ")" /\ DotsMatch(s, g + 8, e - 1)}

\* Positions p of \]\( reachable from a match start i through .*? and followed by
\* the rest of the pattern.
UrlMids(s, i) ==
  {p \in (i + 2)..Len(s) :
     /\ IsAt(s, p, LitCloseOpenHttps)
     /\ DotsMatch(s, i + 2, p - 1)
     /\ UrlEnds(s, p + 2) # {}}

UrlStarts(s) == {i \in 1..Len(s) : IsAt(s, i, LitBangBracket) /\ UrlMids(s, i) # {}}

\* s.match(/!\[.*?\]\((https:\/\/.*?)\)/)?.[1], '' when there is no match: the
\* leftmost match, each lazy quantifier as short as a match allows.
UrlMatch(s) ==
  LET starts == UrlStarts(s)
  IN IF starts = {} THEN <<>>
     ELSE LET i == Min(starts)
              p == Min(UrlMids(s, i))
              e == Min(UrlEnds(s, p + 2))
          IN SubSeq(s, p + 2, e - 1)

GenIdEnds(s, i) ==
  {e \in (i + 9)..Len(s) : s[e] = "BQ" /\ DotsMatch(s, i + 9, e - 1)}

GenIdStarts(s) == {i \in 1..Len(s) : IsAt(s, i, LitGenId) /\ GenIdEnds(s, i) # {}}

\* s.match(genIdPattern)?.[1] for the pattern  gen_id: BQ(.*?)BQ  (BQ a backquote), '' when there is no match or the group is empty.
GenIdMatch(s) ==
  LET starts == GenIdStarts(s)
  IN IF starts = {} THEN <<>>
     ELSE LET i == Min(starts)
              e == Min(GenIdEnds(s, i))
          IN SubSeq(s, i + 9, e - 1)

\* decoder.decode(bytes, { stream: true }) with the bytes kept from the earlier
\* chunks: a lead byte and the continuation byte after it make one character, a
\* lead byte at the very end is held back for the next call, and a byte that
\* fits neither is replaced.
Decode(kept, bytes) ==
  LET w == kept \o bytes
      n == Len(w)
      \* what byte j contributes to the text: a character, or nothing ("")
      char(j) ==
        IF w[j] = LeadByte
          THEN IF j = n THEN ""
               ELSE IF w[j + 1] = ContByte THEN TwoByteChar ELSE ReplacementChar
        ELSE IF w[j] = ContByte
          THEN IF j > 1 /\ w[j - 1] = LeadByte THEN "" ELSE ReplacementChar
        ELSE w[j]
      IsChar(c) == c # ""
  IN [text |-> SelectSeq([j \in 1..n |-> char(j)], IsChar),
      held |-> IF n > 0 /\ w[n] = LeadByte THEN <<LeadByte>> ELSE <<>>]

\* The text the two patterns are applied to after a chunk arrived.
ScanChunkOnly(full, chunk) == chunk

ScanText(full, chunk) == full

\* if (match?.[1] && !found) found = match[1]
KeepLatest(found, match) == IF match # <<>> THEN match ELSE found

KeepFirst(found, match) == IF match # <<>> /\ found = <<>> THEN match ELSE found

\* if (imageUrl && genId) break
NeverBreak(url, id) == FALSE

BothFound(url, id) == url # <<>> /\ id # <<>>

\* ---- events and messages

Event(kind, url, id, error) == [event |-> kind, url |-> url, gen_id |-> id, error |-> error]

LogEvent(key) == Event("log", <<>>, <<>>, key)

KeepEmptyId(id) == id

OrUnknown(id) == IF id # <<>> THEN id ELSE Unknown

\* if (!imageUrl) throw ...
UrlNeverMissing(url) == FALSE

UrlMissing(url) == url = <<>>

\* The messages of the error paths.
PromptRequired == "A prompt is required for image generation"
\* One message for both missing inputs.
SameAsPromptRequired == "A prompt is required for image generation"
ApiKeyRequired == "API key is required for image generation"
HttpStatusFailed == "image generation failed: <status> - <errorText>"
BodyUnreadable == "cannot read the response stream"
UrlNotFound == "cannot extract the image URL from the response"
FetchFailed == "fetch failed"
ReadFailed == "stream read failed"
EmitFailed == "emitEvent failed"

ImageMessage(url, id) == [type |-> "ai", url |-> url, gen_id |-> id, text |-> ""]

\* The plain system message with the image, returned when the AIMessage cannot
\* be constructed.
SystemImageMessage(url, id) == [type |-> "system", url |-> url, gen_id |-> id, text |-> ""]

\* new SystemMessage('...: ' + error.message)
FallbackMessage(error) == [type |-> "system", url |-> <<>>, gen_id |-> <<>>, text |-> error]

\* The bodies of the runs whose liveness is checked.
ShortBodies == {BodyUrlOnly, BodyIdOnly, BodyNone, <<>>}

\* generateImage is entered; the service will answer a request with one of bodies.
ImageStart(bodies) ==
  /\ imgPc = "start"
  /\ query \in {"", "a cat"}
  /\ apiKey \in {"", "sk-test"}
  /\ body \in bodies
  /\ streamPos = 0
  /\ streamStalled = FALSE
  /\ done = FALSE
  /\ held = <<>>
  /\ fullResponse = <<>>
  /\ imageUrl = <<>>
  /\ genId = <<>>
  /\ elapsed = 0
  /\ fetches = 0
  /\ events = <<>>
  /\ imgOutcome = "none"
  /\ imgError = ""
  /\ imgResult = <<>>

ImageInit == ImageStart(Bodies)

\* A throw outside the try block leaves generateImage.
Throws(error) ==
  /\ imgPc' = "done"
  /\ imgOutcome' = "thrown"
  /\ imgError' = error
  /\ UNCHANGED <<events, imgResult>>

\* A catch block that issues the request again, up to three requests.
CaughtAndRetried(emitted, error) ==
  /\ imgPc' = IF fetches < 2 THEN "request" ELSE "done"
  /\ imgOutcome' = IF fetches < 2 THEN imgOutcome ELSE "returned"
  /\ imgError' = error
  /\ events' = Append(emitted, Event("error", <<>>, <<>>, error))
  /\ imgResult' = <<FallbackMessage(error)>>

\* catch (error): the error event is emitted and the fallback message returned;
\* when this emitEvent throws, its error leaves generateImage.
Caught(emitted, error) ==
  /\ imgPc' = "done"
  /\ \/ /\ imgOutcome' = "returned"
        /\ imgError' = error
        /\ events' = Append(emitted, Event("error", <<>>, <<>>, error))
        /\ imgResult' = <<FallbackMessage(error)>>
     \/ /\ imgOutcome' = "thrown"
        /\ imgError' = EmitFailed
        /\ events' = emitted
        /\ UNCHANGED imgResult

\* The checks of query and apiKey in the other order.
ValidateKeyFirst ==
  /\ UNCHANGED <<agentVars, preVars, multiVars, deleteVars, modalVars>>
  /\ imgPc = "start"
  /\ IF apiKey = "" THEN Throws(ApiKeyRequired)
     ELSE IF query = "" THEN Throws(PromptRequired)
     ELSE /\ imgPc' = "request"
          /\ UNCHANGED <<imgOutcome, imgError, events, imgResult>>
  /\ UNCHANGED <<query, apiKey, body, streamPos, streamStalled, done, held, fullResponse,
                 imageUrl, genId, elapsed, fetches>>

\* The checks of query and apiKey, before the try block.
Validate ==
  /\ UNCHANGED <<agentVars, preVars, multiVars, deleteVars, modalVars>>
  /\ imgPc = "start"
  /\ IF query = "" THEN Throws(PromptRequired)
     ELSE IF apiKey = "" THEN Throws(ApiKeyRequired)
     ELSE /\ imgPc' = "request"
          /\ UNCHANGED <<imgOutcome, imgError, events, imgResult>>
  /\ UNCHANGED <<query, apiKey, body, streamPos, streamStalled, done, held, fullResponse,
                 imageUrl, genId, elapsed, fetches>>

\* The two log events, the request, and the checks of the response; a throw of
\* one of the two emitEvent calls (after k log events) is caught before the
\* request is issued.
Request ==
  /\ UNCHANGED <<agentVars, preVars, multiVars, deleteVars, modalVars>>
  /\ imgPc = "request"
  /\ LET logs == <<LogEvent("image.generating"), LogEvent("image.api.request")>>
         logged == events \o logs
     IN \/ /\ \E k \in 0..1 : Caught(events \o SubSeq(logs, 1, k), EmitFailed)
           /\ UNCHANGED fetches
        \/ /\ fetches' = fetches + 1
           /\ \/ Caught(logged, FetchFailed)
              \/ Caught(logged, HttpStatusFailed)
              \/ Caught(logged, BodyUnreadable)
              \/ /\ events' = logged
                 /\ imgPc' = "loop"
                 /\ UNCHANGED <<imgOutcome, imgError, imgResult>>
  /\ UNCHANGED <<query, apiKey, body, streamPos, streamStalled, done, held, fullResponse,
                 imageUrl, genId, elapsed>>

\* while (!done && Date.now() - startTime < timeout): the next reader.read() is
\* issued, or the loop is left.
LoopCheck ==
  /\ UNCHANGED <<agentVars, preVars, multiVars, deleteVars, modalVars>>
  /\ imgPc = "loop"
  /\ imgPc' = IF ~done /\ elapsed < TimeoutTicks THEN "awaitRead" ELSE "afterLoop"
  /\ UNCHANGED <<query, apiKey, body, streamPos, streamStalled, done, held, fullResponse,
                 imageUrl, genId, elapsed, fetches, events, imgOutcome, imgError, imgResult>>

\* reader.read() settles: with the next bytes of the body, wherever the chunk
\* ends; with done at the end of the body; or with a rejection.
ReadSettles ==
  /\ UNCHANGED <<agentVars, preVars, multiVars, deleteVars, modalVars>>
  /\ imgPc = "awaitRead"
  /\ ~streamStalled
  /\ \/ /\ streamPos < Len(body)
        /\ \E n \in 1..(Len(body) - streamPos) :
             LET decoded == Decode(held, SubSeq(body, streamPos + 1, streamPos + n))
                 full == fullResponse \o decoded.text
                 scanned == ScanText(full, decoded.text)
                 url == KeepFirst(imageUrl, UrlMatch(scanned))
                 id == KeepFirst(genId, GenIdMatch(scanned))
             IN /\ streamPos' = streamPos + n
                /\ held' = decoded.held
                /\ fullResponse' = full
                /\ imageUrl' = url
                /\ genId' = id
                /\ imgPc' = IF BothFound(url, id) THEN "afterLoop" ELSE "loop"
        /\ UNCHANGED <<done, events, imgOutcome, imgError, imgResult>>
     \/ /\ streamPos = Len(body)
        /\ done' = TRUE
        /\ imgPc' = "loop"
        /\ UNCHANGED <<streamPos, held, fullResponse, imageUrl, genId, events, imgOutcome,
                       imgError, imgResult>>
     \/ /\ Caught(events, ReadFailed)
        /\ UNCHANGED <<streamPos, done, held, fullResponse, imageUrl, genId>>
  /\ UNCHANGED <<query, apiKey, body, streamStalled, elapsed, fetches>>

\* The service stops sending without closing the stream: the pending read never
\* settles.
StreamStalls ==
  /\ UNCHANGED <<agentVars, preVars, multiVars, deleteVars, modalVars>>
  /\ imgPc = "awaitRead"
  /\ ~streamStalled
  /\ streamStalled' = TRUE
  /\ UNCHANGED <<imgPc, query, apiKey, body, streamPos, done, held, fullResponse, imageUrl,
                 genId, elapsed, fetches, events, imgOutcome, imgError, imgResult>>

\* Wall-clock time passes while the stream is read.
Tick ==
  /\ UNCHANGED <<agentVars, preVars, multiVars, deleteVars, modalVars>>
  /\ imgPc \in {"loop", "awaitRead"}
  /\ elapsed < TimeoutTicks
  /\ elapsed' = elapsed + 1
  /\ UNCHANGED <<imgPc, query, apiKey, body, streamPos, streamStalled, done, held,
                 fullResponse, imageUrl, genId, fetches, events, imgOutcome, imgError,
                 imgResult>>

\* The events of the success path, in the order they are emitted.
SuccessEventsSwapped(url, id) ==
  <<Event("create_node", url, OrUnknown(id), ""), Event("artifact", url, OrUnknown(id), "")>>

SuccessEvents(url, id) ==
  <<Event("artifact", url, OrUnknown(id), ""), Event("create_node", url, OrUnknown(id), "")>>

\* After the loop: the check of imageUrl, the artifact event, the create_node
\* event and the returned message (the AIMessage, or the plain system message
\* when the AIMessage cannot be constructed); a throw on the way (from an
\* emitEvent after k events of the success path) is caught.
Finish ==
  /\ UNCHANGED <<agentVars, preVars, multiVars, deleteVars, modalVars>>
  /\ imgPc = "afterLoop"
  /\ IF UrlMissing(imageUrl) THEN Caught(events, UrlNotFound)
     ELSE \/ /\ events' = events \o SuccessEvents(imageUrl, genId)
             /\ imgResult' \in {<<ImageMessage(imageUrl, OrUnknown(genId))>>,
                                <<SystemImageMessage(imageUrl, OrUnknown(genId))>>}
             /\ imgOutcome' = "returned"
             /\ imgPc' = "done"
             /\ UNCHANGED imgError
          \/ \E k \in 0..1 :
               Caught(events \o SubSeq(SuccessEvents(imageUrl, genId), 1, k), EmitFailed)
  /\ UNCHANGED <<query, apiKey, body, streamPos, streamStalled, done, held, fullResponse,
                 imageUrl, genId, elapsed, fetches>>

ImageNext ==
  \/ Validate
  \/ Request
  \/ LoopCheck
  \/ ReadSettles
  \/ StreamStalls
  \/ Tick
  \/ Finish

\* ---------------------------------------------------------- specifications

\* No invocation of the skill is under way.
AgentIdle ==
  /\ agentPc = "idle"
  /\ messages = <<>>
  /\ requestMessages = <<>>
  /\ toolCallsPerResponse = 1
  /\ wfNext = "none"
  /\ tasks = {}
  /\ step = 0
  /\ lastNode = "none"
  /\ llmInput = <<>>
  /\ clientCreated = FALSE
  /\ closeCount = 0
  /\ pending = "none"
  /\ outcome = "none"
  /\ result = <<>>

ImageIdle ==
  /\ imgPc = "idle"
  /\ query = ""
  /\ apiKey = ""
  /\ body = <<>>
  /\ streamPos = 0
  /\ streamStalled = FALSE
  /\ done = FALSE
  /\ held = <<>>
  /\ fullResponse = <<>>
  /\ imageUrl = <<>>
  /\ genId = <<>>
  /\ elapsed = 0
  /\ fetches = 0
  /\ events = <<>>
  /\ imgOutcome = "none"
  /\ imgError = ""
  /\ imgResult = <<>>

PreIdle ==
  /\ prePc = "idle"
  /\ projectId = ""
  /\ enabledKnowledgeBase = FALSE
  /\ contextUrls = <<>>
  /\ isModelContextLenSupport = FALSE
  /\ hasContext = FALSE
  /\ remainingTokens = 0
  /\ contextUrlSources = <<>>
  /\ queryUrlSources = <<>>
  /\ urlSources = <<>>
  /\ prepareCalls = <<>>
  /\ context = ""
  /\ sources = <<>>
  /\ builderCalls = <<>>
  /\ preOutcome = "none"

MultiIdle ==
  /\ invPc = [i \in Invocations |-> "idle"]
  /\ invClient = [i \in Invocations |-> 0]
  /\ clients = <<>>
  /\ uses = {}

\* -------------------------------------------------------- useDeleteCanvas

CanvasIds == {"c1", "c2"}

\* canvasList of useHandleSiderData, as captured by deleteCanvas.
canvasList == <<"c1", "c2">>

\* canvasList?.find((canvas) => canvas.id !== canvasId)?.id ("" when there is none)
FirstCanvas(canvasId) ==
  LET others == {i \in DOMAIN canvasList : canvasList[i] # canvasId}
  IN IF others = {} THEN ""
     ELSE canvasList[CHOOSE i \in others : \A j \in others : i <= j]

\* navigate(`/canvas/${firstCanvas?.id}`) or navigate('/canvas/empty')
NavigateTarget(canvasId) ==
  IF FirstCanvas(canvasId) # "" THEN <<"canvas", FirstCanvas(canvasId)>>
  ELSE <<"canvas", "empty">>

\* The outcomes of the awaited getClient().deleteCanvas(...): data.success is
\* true, data.success is not true, the request throws.
DeleteOutcomes == {"success", "failure", "throws"}

\* A setIsRemoving(false) placed at the end of the try block runs only on the
\* outcomes that do not throw.
ResetInsideTry(settled) == settled = "throws"

\* isRemoving once the finally block has run.
FinallyIsRemoving(settled) == FALSE

\* localStorage after "if (storedCanvasId === canvasId) removeItem(...)"
RemoveStored(stored, canvasId) == IF stored = canvasId THEN "" ELSE stored

\* The requests of deleteCanvas still awaited.
InFlight == {i \in DOMAIN delCalls : delCalls[i].state = "awaiting"}

\* deleteCanvas(canvasId) up to its await: the isRemoving of its closure
\* decides whether it returns at once or sets isRemoving and issues the request.
DeleteCanvasStart(canvasId) ==
  IF closureIsRemoving
  THEN /\ delCalls' = Append(delCalls,
            [canvasId |-> canvasId, state |-> "returned", ret |-> "undefined",
             requested |-> FALSE, response |-> "none"])
       /\ isRemoving' = isRemoving
  ELSE /\ delCalls' = Append(delCalls,
            [canvasId |-> canvasId, state |-> "awaiting", ret |-> "none",
             requested |-> TRUE, response |-> "none"])
       /\ isRemoving' = TRUE

DeleteInit ==
  /\ isRemoving = FALSE
  /\ closureIsRemoving = FALSE
  /\ debounce = "idle"
  /\ lastArgs = ""
  /\ delCalls = <<>>
  /\ currentCanvasId \in CanvasIds \cup {""}
  /\ userCalls = 0
  /\ listReloads = 0
  /\ successToasts = 0
  /\ location = <<>>

\* A call of the debounced deleteCanvas from an event handler. Outside the wait
\* it invokes deleteCanvas at once (leading: true), and the state update made
\* inside the handler is rendered before the handler's event is over; inside
\* the wait it only restarts the wait and leaves a trailing invocation due.
DebouncedCall(canvasId) ==
  /\ userCalls < MaxCalls
  /\ userCalls' = userCalls + 1
  /\ IF debounce = "idle"
     THEN /\ DeleteCanvasStart(canvasId)
          /\ closureIsRemoving' = isRemoving'
          /\ debounce' = "waiting"
          /\ lastArgs' = lastArgs
     ELSE /\ debounce' = "pending"
          /\ lastArgs' = canvasId
          /\ UNCHANGED <<isRemoving, closureIsRemoving, delCalls>>
  /\ UNCHANGED <<currentCanvasId, listReloads, successToasts, location>>
  /\ UNCHANGED <<agentVars, imageVars, preVars, multiVars, modalVars>>

\* The wait (300 ms since the last call) is over: the trailing invocation, when
\* one is due, runs from the timer with the deleteCanvas of the latest render;
\* its state update is rendered later.
DebounceTimer ==
  /\ debounce \in {"waiting", "pending"}
  /\ debounce' = "idle"
  /\ lastArgs' = ""
  /\ IF debounce = "pending"
     THEN DeleteCanvasStart(lastArgs)
     ELSE UNCHANGED <<isRemoving, delCalls>>
  /\ UNCHANGED <<closureIsRemoving, currentCanvasId, userCalls, listReloads, successToasts,
                 location>>
  /\ UNCHANGED <<agentVars, imageVars, preVars, multiVars, modalVars>>

\* The component renders: deleteCanvas is created anew and captures isRemoving.
Render ==
  /\ closureIsRemoving # isRemoving
  /\ closureIsRemoving' = isRemoving
  /\ UNCHANGED <<isRemoving, debounce, lastArgs, delCalls, currentCanvasId, userCalls,
                 listReloads, successToasts, location>>
  /\ UNCHANGED <<agentVars, imageVars, preVars, multiVars, modalVars>>

\* The request of invocation i settles and deleteCanvas runs to its end.
RequestSettles(i, settled) ==
  /\ delCalls[i].state = "awaiting"
  /\ LET canvasId == delCalls[i].canvasId
         storedCanvasId == currentCanvasId
     IN /\ IF settled = "success"
           THEN /\ successToasts' = successToasts + 1
                /\ currentCanvasId' = RemoveStored(storedCanvasId, canvasId)
                /\ listReloads' = listReloads + 1
                /\ location' = IF storedCanvasId = canvasId THEN NavigateTarget(canvasId)
                               ELSE location
           ELSE UNCHANGED <<successToasts, currentCanvasId, listReloads, location>>
        /\ isRemoving' = FinallyIsRemoving(settled)
        /\ delCalls' = [delCalls EXCEPT ![i] =
             [@ EXCEPT !.response = settled,
                       !.state = IF settled = "throws" THEN "thrown" ELSE "returned",
                       !.ret = CASE settled = "success" -> "true"
                                 [] settled = "failure" -> "false"
                                 [] OTHER -> "none"]]
  /\ UNCHANGED <<closureIsRemoving, debounce, lastArgs, userCalls>>
  /\ UNCHANGED <<agentVars, imageVars, preVars, multiVars, modalVars>>

DeleteNext ==
  \/ \E canvasId \in CanvasIds : DebouncedCall(canvasId)
  \/ DebounceTimer
  \/ Render
  \/ \E i \in DOMAIN delCalls : \E settled \in DeleteOutcomes : RequestSettles(i, settled)

DeleteIdle ==
  /\ isRemoving = FALSE
  /\ closureIsRemoving = FALSE
  /\ debounce = "idle"
  /\ lastArgs = ""
  /\ delCalls = <<>>
  /\ currentCanvasId = ""
  /\ userCalls = 0
  /\ listReloads = 0
  /\ successToasts = 0
  /\ location = <<>>

\* ------------------------------------------------- NewKnowledgeModal.onOk

\* The outcomes of the awaited createProject or updateProject: a result without
\* error, a result with error, the request throws.
ProjectOutcomes == {"ok", "error", "throws"}

\* A test that takes every result for a good one.
NeverAnError(settled) == FALSE

\* result?.error
ResultError(settled) == settled = "error"

\* t(`workspace.newKnowledgeModal.${editProject ? 'editFailed' : 'failed'}`)
FailedKey == IF editProject THEN "editFailed" ELSE "failed"

\* t(`workspace.newKnowledgeModal.${editProject ? 'editSuccessful' : 'successful'}`)
SuccessfulKey == IF editProject THEN "editSuccessful" ELSE "successful"

ModalInit ==
  /\ confirmLoading = FALSE
  /\ showNewKnowledgeModal = TRUE
  /\ reloadKnowledgeBaseList = FALSE
  /\ editProject \in BOOLEAN
  /\ submits = <<>>
  /\ projectRequests = <<>>
  /\ modalToasts = <<>>

\* onOk is called: form.validate() is started.
OnOk ==
  /\ Len(submits) < MaxSubmits
  /\ submits' = Append(submits, [state |-> "validating", settledAs |-> "none"])
  /\ UNCHANGED <<confirmLoading, showNewKnowledgeModal, reloadKnowledgeBaseList, editProject,
                 projectRequests, modalToasts>>
  /\ UNCHANGED <<agentVars, imageVars, preVars, multiVars, deleteVars>>

\* form.validate() settles: when it rejects only the outer catch runs; when it
\* resolves confirmLoading is set and the update or create request is issued.
FormValidated(i, valid) ==
  /\ submits[i].state = "validating"
  /\ IF valid
     THEN /\ confirmLoading' = TRUE
          /\ projectRequests' =
               Append(projectRequests, IF editProject THEN "updateProject" ELSE "createProject")
          /\ submits' = [submits EXCEPT ![i].state = "requesting"]
     ELSE /\ submits' = [submits EXCEPT ![i] = [state |-> "done", settledAs |-> "invalid"]]
          /\ UNCHANGED <<confirmLoading, projectRequests>>
  /\ UNCHANGED <<showNewKnowledgeModal, reloadKnowledgeBaseList, editProject, modalToasts>>
  /\ UNCHANGED <<agentVars, imageVars, preVars, multiVars, deleteVars>>

\* The awaited request settles and the rest of the then-callback runs.
ProjectRequestSettles(i, settled) ==
  /\ submits[i].state = "requesting"
  /\ submits' = [submits EXCEPT ![i] = [state |-> "done", settledAs |-> settled]]
  /\ confirmLoading' = FALSE
  /\ IF settled = "throws" \/ ResultError(settled)
     THEN /\ modalToasts' = Append(modalToasts, [kind |-> "error", key |-> FailedKey])
          /\ UNCHANGED <<showNewKnowledgeModal, reloadKnowledgeBaseList>>
     ELSE /\ showNewKnowledgeModal' = FALSE
          /\ modalToasts' = Append(modalToasts, [kind |-> "success", key |-> SuccessfulKey])
          /\ reloadKnowledgeBaseList' = TRUE
  /\ UNCHANGED <<editProject, projectRequests>>
  /\ UNCHANGED <<agentVars, imageVars, preVars, multiVars, deleteVars>>

ModalNext ==
  \/ OnOk
  \/ \E i \in DOMAIN submits : \E valid \in BOOLEAN : FormValidated(i, valid)
  \/ \E i \in DOMAIN submits : \E settled \in ProjectOutcomes : ProjectRequestSettles(i, settled)

ModalIdle ==
  /\ confirmLoading = FALSE
  /\ showNewKnowledgeModal = FALSE
  /\ reloadKnowledgeBaseList = FALSE
  /\ editProject = FALSE
  /\ submits = <<>>
  /\ projectRequests = <<>>
  /\ modalToasts = <<>>

\* One invocation of the Agent skill.
Init == AgentInit /\ ImageIdle /\ PreIdle /\ MultiIdle /\ DeleteIdle /\ ModalIdle

Next == AgentNext

Spec == Init /\ [][Next]_vars

\* Every awaited promise of agentNode settles.
FairSpec == Spec /\ WF_vars(Next)

\* One invocation of the ImageGeneration skill.
ImageSpecInit == ImageInit /\ AgentIdle /\ PreIdle /\ MultiIdle /\ DeleteIdle /\ ModalIdle

ImageSpec == ImageSpecInit /\ [][ImageNext]_vars

\* What generateImage, the wall clock and a stream that has not stalled do next.
ImageProgress ==
  \/ Validate
  \/ Request
  \/ LoopCheck
  \/ ReadSettles
  \/ Tick
  \/ Finish

\* generateImage runs on, the clock runs on, and a stream that has not stalled
\* settles every read; nothing makes a stalled stream deliver.
ImageFairInit ==
  ImageStart(ShortBodies) /\ AgentIdle /\ PreIdle /\ MultiIdle /\ DeleteIdle /\ ModalIdle

ImageFairSpec == ImageFairInit /\ [][ImageNext]_vars /\ WF_vars(ImageProgress)

\* One run of commonPreprocess.
PreSpecInit == PreInit /\ AgentIdle /\ ImageIdle /\ MultiIdle /\ DeleteIdle /\ ModalIdle

PreSpec == PreSpecInit /\ [][PreNext]_vars

\* Several invocations of the Agent skill, interleaved.
MultiSpecInit == MultiInit /\ AgentIdle /\ ImageIdle /\ PreIdle /\ DeleteIdle /\ ModalIdle

MultiSpec == MultiSpecInit /\ [][MultiNext]_vars

\* Calls of the deleteCanvas of one useDeleteCanvas, renders, timers and responses.
DeleteSpecInit == DeleteInit /\ AgentIdle /\ ImageIdle /\ PreIdle /\ MultiIdle /\ ModalIdle

DeleteSpec == DeleteSpecInit /\ [][DeleteNext]_vars

\* Runs of onOk of one NewKnowledgeModal.
ModalSpecInit == ModalInit /\ AgentIdle /\ ImageIdle /\ PreIdle /\ MultiIdle /\ DeleteIdle

ModalSpec == ModalSpecInit /\ [][ModalNext]_vars

\* ------------------------------------------------- properties: Agent skill

\* msgs ends with an AIMessage that requests tool calls followed by exactly its
\* tool results.
EndsWithToolResults(msgs) ==
  \E j \in 1..Len(msgs) :
    /\ msgs[j].type = "ai"
    /\ HasToolCalls(msgs[j])
    /\ Len(msgs) = j + msgs[j].calls
    /\ \A i \in (j + 1)..Len(msgs) : msgs[i].type = "tool"

\* Every model response so far requested a tool call.
AlwaysRequestsTools ==
  \A i \in 1..Len(messages) : messages[i].type = "ai" => HasToolCalls(messages[i])

\* C1: when the llm node produces a response whose tool_calls is absent or empty,
\* the workflow routes to END, never to tools, and from then on no llm or tools
\* step happens in that invocation: the message list, the step count and the
\* last node stay as they are.
C1_NoToolCallsGoesToEnd ==
  /\ [][(lastNode' = "llm" /\ step' = step + 1 /\ ~HasToolCalls(Last(messages')))
          => wfNext' = END]_vars
  /\ [][wfNext = END
          => /\ wfNext' = END
             /\ messages' = messages
             /\ step' = step
             /\ lastNode' = lastNode
             /\ llmInput' = llmInput]_vars

C1_Witness ==
  /\ agentPc = "done"
  /\ outcome = "returned"
  /\ wfNext = END
  /\ step > 1
  /\ lastNode = "llm"
  /\ ~HasToolCalls(Last(messages))

\* C2 as stated: after an llm response with tool calls the next node is tools, and
\* after tools the next node executed is always llm.
C2_ToolsAlwaysLoopsBack ==
  /\ [][(agentPc = "workflow" /\ lastNode = "llm" /\ HasToolCalls(Last(messages)))
          => lastNode' = "tools"]_vars
  /\ [][(agentPc = "workflow" /\ lastNode = "tools") => lastNode' = "llm"]_vars

\* C2 amended: after an llm response with tool calls the next node is tools; after
\* tools has appended its results the next node is llm, invoked with a message
\* list that ends with that response followed by its tool results, unless 100
\* steps were already executed: then no node runs and the invocation fails with
\* the step-limit error.
C2_ToolsLoopsBackUnlessStepLimit ==
  /\ [][(agentPc = "workflow" /\ lastNode = "llm" /\ HasToolCalls(Last(messages)))
          => lastNode' = "tools"]_vars
  /\ [][(agentPc = "workflow" /\ lastNode = "tools")
          => IF step < recursionLimit
               THEN /\ lastNode' = "llm"
                    /\ llmInput' = messages
                    /\ EndsWithToolResults(llmInput')
               ELSE /\ lastNode' = "tools"
                    /\ agentPc' = "finally"
                    /\ pending' = "GraphRecursionError"
                    /\ messages' = messages]_vars

C2_Witness ==
  /\ lastNode = "llm"
  /\ step >= 3
  /\ EndsWithToolResults(llmInput)
  /\ Len(llmInput) > Len(requestMessages) + 1

\* C3: with a model that requests a tool call in every response the workflow
\* never executes more than 100 steps, the invocation ends, and it ends with the
\* step-limit error thrown out of agentNode and no message list returned; a
\* returned message list always ends with a response without tool calls.
C3_StepLimitIsFatal ==
  /\ [](step <= recursionLimit)
  /\ []((agentPc = "done" /\ AlwaysRequestsTools
         /\ outcome \notin {"PreprocessError", "ListServersError", "MCPInitError",
                            "ModelError", "ToolError"})
        => (outcome = "GraphRecursionError" /\ step = recursionLimit /\ result = <<>>))
  /\ [](outcome = "returned" => (result = messages /\ ~HasToolCalls(Last(result))))
  /\ <>(agentPc = "done")

C3_Witness ==
  /\ agentPc = "done"
  /\ AlwaysRequestsTools
  /\ step = recursionLimit
  /\ outcome = "GraphRecursionError"
  /\ result = <<>>

\* C4: when agentNode returns normally or throws a model invocation error, a tool
\* execution error or the step-limit error, client.close() was invoked exactly
\* once; it is never invoked twice.
C4_CloseExactlyOnce ==
  /\ closeCount <= 1
  /\ (agentPc = "done"
      /\ outcome \in {"returned", "ModelError", "ToolError", "GraphRecursionError"})
     => closeCount = 1

C4_Witness ==
  /\ agentPc = "done"
  /\ outcome = "ToolError"
  /\ step > 2
  /\ closeCount = 1

\* C5: every tool client an invocation created has been closed exactly once when
\* the invocation has completed, on every exit path.
C5_CreatedClientReleased ==
  (agentPc = "done" /\ clientCreated) => closeCount = 1

\* s is an initial part of t.
IsPrefix(s, t) == Len(s) <= Len(t) /\ SubSeq(t, 1, Len(s)) = s

\* C16: within one invocation at most one of the nodes llm and tools is scheduled
\* at any moment, the message list changes only by the step of that one node,
\* and the llm node is invoked with the list as the previous node's update left
\* it.
C16_OneNodeAtATime ==
  /\ [](Cardinality(tasks) <= 1)
  /\ [][(agentPc = "workflow" /\ messages' # messages)
          => (tasks = {lastNode'} /\ step' = step + 1 /\ tasks' \cap tasks = {})]_vars
  /\ [][(lastNode' = "llm" /\ step' = step + 1) => llmInput' = messages]_vars

\* The llm node is scheduled after the tools node has applied its results.
C16_Witness ==
  /\ agentPc = "workflow"
  /\ tasks = {"llm"}
  /\ lastNode = "tools"
  /\ step > 3
  /\ Last(messages).type = "tool"

\* C17: when several invocations run interleaved, every model or tool step of an
\* invocation runs on a client that this invocation created and that is open,
\* a client is closed by no invocation but its creator, and while an invocation
\* is at work the client it holds is its own and open.
C17_ClientOwnedByInvocation ==
  /\ \A u \in uses : clients[u.client].creator = u.inv /\ u.open
  /\ \A c \in DOMAIN clients : clients[c].closedBy \subseteq {clients[c].creator}
  /\ \A i \in Invocations :
       invPc[i] \in {"llm", "tools", "finally"}
         => /\ invClient[i] \in DOMAIN clients
            /\ clients[invClient[i]].creator = i
            /\ clients[invClient[i]].closedBy = {}

\* One invocation has closed its client while another is still at its tools.
C17_Witness ==
  /\ invPc[1] = "done"
  /\ invClient[1] # 0
  /\ clients[invClient[1]].closedBy = {1}
  /\ invPc[2] = "tools"
  /\ clients[invClient[2]].closedBy = {}
  /\ \E u \in uses : u.inv = 1
  /\ \E u \in uses : u.inv = 2

\* C18: the message list of the inner workflow is append-only: after every llm
\* or tools step the previous list is a prefix of the new one, each llm step
\* appends exactly one message, and the request messages built by preprocessing
\* are a prefix of the list agentNode returns.
C18_MessagesAppendOnly ==
  /\ [][agentPc = "workflow" => IsPrefix(messages, messages')]_vars
  /\ [][(lastNode' = "llm" /\ step' = step + 1)
          => (Len(messages') = Len(messages) + 1 /\ Last(messages').type = "ai")]_vars
  /\ [](agentPc \in {"workflow", "finally"} => IsPrefix(requestMessages, messages))
  /\ [](outcome = "returned" => (IsPrefix(requestMessages, result) /\ result = messages))

C18_Witness ==
  /\ agentPc = "done"
  /\ outcome = "returned"
  /\ step > 4
  /\ Len(requestMessages) = MaxRequestMessages
  /\ Len(result) > Len(requestMessages) + 4

\* C23: when MCP setup fails (initializeConnections throws, getTools throws or
\* the tool list is empty) agentNode fails with 'Failed to initialize MCP
\* tools': setupAgent leaves either into the workflow or with a failure, a
\* failure after the client was constructed is that error, and in a run that
\* ended with it no workflow was built and the model was never invoked.
C23_SetupFailureStopsAgent ==
  /\ [][agentPc = "setup"
          => \/ (agentPc' = "workflow" /\ outcome' = "none")
             \/ /\ agentPc' = "done"
                /\ outcome' = IF clientCreated' THEN "MCPInitError" ELSE "ListServersError"]_vars
  /\ [](outcome \in {"MCPInitError", "ListServersError"}
          => /\ agentPc = "done"
             /\ step = 0
             /\ lastNode = "none"
             /\ tasks = {}
             /\ messages = <<>>
             /\ llmInput = <<>>
             /\ result = <<>>)

C23_Witness ==
  /\ agentPc = "done"
  /\ outcome = "MCPInitError"
  /\ clientCreated
  /\ requestMessages # <<>>
  /\ step = 0

\* C24: no llm or tools step happens after client.close() was invoked, close is
\* invoked only when the workflow has come to its end, and the result or error
\* of the try block is delivered only with close invoked.
C24_NoStepAfterClose ==
  /\ [][closeCount > 0
          => (step' = step /\ messages' = messages /\ lastNode' = lastNode
              /\ llmInput' = llmInput)]_vars
  /\ [][closeCount' # closeCount
          => (agentPc = "finally" /\ agentPc' = "done" /\ closeCount' = closeCount + 1)]_vars
  /\ [](outcome \in {"returned", "ModelError", "ToolError", "GraphRecursionError"}
          => closeCount > 0)
  /\ [](closeCount > 0 => agentPc = "done")

\* close came after a model error in the middle of the tool loop.
C24_Witness ==
  /\ agentPc = "done"
  /\ closeCount = 1
  /\ outcome = "ModelError"
  /\ step > 3
  /\ lastNode = "llm"

\* ---------------------------------------- properties: commonPreprocess

\* C11: for every remaining token budget B <= 0 commonPreprocess does not call
\* prepareContext, the context handed to the message builder is the empty string
\* and the returned source list is empty, whatever mentioned context, URL sources
\* or knowledge-base setting are present.
C11_NoBudgetSkipsContext ==
  remainingTokens <= 0
    => /\ prepareCalls = <<>>
       /\ context = ""
       /\ sources = <<>>
       /\ \A i \in DOMAIN builderCalls : builderCalls[i].context = ""

\* A returned run without budget that had mentioned context, URL sources and the
\* knowledge-base search enabled.
C11_Witness ==
  /\ prePc = "done"
  /\ preOutcome = "returned"
  /\ remainingTokens < 0
  /\ hasContext
  /\ Len(urlSources) > 1
  /\ enableKnowledgeBaseSearch
  /\ Len(builderCalls) = 1

\* C12: the URL source list handed to context preparation is the context-URL
\* sources followed by the query-derived sources, each in its own order: [A,B]
\* and [C,D] give exactly [A,B,C,D], and without context URLs it is exactly the
\* query-derived list.
C12_ContextSourcesFirst ==
  /\ prePc \in {"prepare", "build"}
       => /\ urlSources = contextUrlSources \o queryUrlSources
          /\ contextUrls = <<>> => urlSources = queryUrlSources
  /\ \A i \in DOMAIN prepareCalls :
       /\ prepareCalls[i].urlSources = contextUrlSources \o queryUrlSources
       /\ (contextUrlSources = <<"A", "B">> /\ queryUrlSources = <<"C", "D">>)
            => prepareCalls[i].urlSources = <<"A", "B", "C", "D">>

C12_Witness ==
  /\ prepareCalls # <<>>
  /\ contextUrlSources = <<"A", "B">>
  /\ queryUrlSources = <<"C", "D">>
  /\ prepareCalls[1].urlSources = <<"A", "B", "C", "D">>

\* C13: the message builder is told to use the context-aware user-prompt builder
\* exactly when prepareContext was called in this invocation and the chat
\* model's context length is supported; otherwise it is told to use the plain
\* builder.
C13_ContextAwareBuilderOnlyWhenPrepared ==
  \A i \in DOMAIN builderCalls :
    builderCalls[i].needPrepareContext <=> (prepareCalls # <<>> /\ isModelContextLenSupport)

\* Context was assembled, the context length is not supported: the plain builder.
C13_Witness ==
  /\ Len(builderCalls) = 1
  /\ prepareCalls # <<>>
  /\ ~isModelContextLenSupport
  /\ ~builderCalls[1].needPrepareContext
  /\ context # ""

\* C22: with a positive remaining token budget prepareContext is called (once)
\* exactly when mentioned context exists, the merged URL source list is
\* non-empty or knowledge-base search is enabled, and the search is enabled, and
\* passed on as enabled, exactly when a projectId is present and
\* runtimeConfig.enabledKnowledgeBase is true.
C22_PrepareContextWhenNeeded ==
  /\ (remainingTokens > 0 /\ (prePc = "build" \/ builderCalls # <<>> \/ prepareCalls # <<>>))
       => /\ Len(prepareCalls) <= 1
          /\ prepareCalls # <<>>
               <=> (hasContext \/ Len(urlSources) > 0
                    \/ (projectId # "" /\ enabledKnowledgeBase))
  /\ \A i \in DOMAIN prepareCalls :
       prepareCalls[i].enableKnowledgeBaseSearch <=> (projectId # "" /\ enabledKnowledgeBase)

\* A project without the knowledge base enabled and nothing else to prepare.
C22_Witness ==
  /\ prePc = "done"
  /\ preOutcome = "returned"
  /\ remainingTokens > 0
  /\ ~hasContext
  /\ urlSources = <<>>
  /\ projectId # ""
  /\ ~enabledKnowledgeBase
  /\ prepareCalls = <<>>

\* ------------------------------------------- properties: ImageGeneration

ErrorEvents == {i \in DOMAIN events : events[i].event = "error"}

\* The events emitted so far that are not log events.
IsNotLog(e) == e.event # "log"

NonLogEvents == SelectSeq(events, IsNotLog)

\* The run returned the assistant message that carries the image.
Succeeded == imgPc = "done" /\ imgResult # <<>> /\ imgResult[1].type = "ai"

\* C6: every failure of generateImage (missing prompt, missing API key,
\* non-success status, unreadable body, no URL found) ends with exactly one error
\* event on the event stream and the fallback message returned.
C6_EveryFailureEmitsOneError ==
  (imgPc = "done" /\ imgError # "")
    => /\ Cardinality(ErrorEvents) = 1
       /\ imgOutcome = "returned"
       /\ imgResult = <<FallbackMessage(imgError)>>

\* C7: for a body that holds the image marker and the gen_id marker, however the
\* body is cut into chunks, nothing but https://host/img.png and abc123 is ever
\* extracted, and both are extracted once the whole body was delivered.
C7_ParserIndependentOfChunking ==
  body \in MarkedBodies
    => /\ imageUrl \in {<<>>, HostImgUrl}
       /\ genId \in {<<>>, Abc123}
       /\ (streamPos = Len(body) \/ done) => (imageUrl = HostImgUrl /\ genId = Abc123)

\* The URL was extracted and a later chunk ended inside the gen_id marker.
C7_Witness ==
  /\ body = BodyBoth
  /\ imageUrl = HostImgUrl
  /\ genId = <<>>
  /\ streamPos = Len(ImageMarker) + 1 + 12
  /\ imgPc = "loop"

C14_AtMostOneRequest ==
  /\ fetches <= 1
  /\ (imgPc = "done"
      /\ imgError \in {FetchFailed, HttpStatusFailed, BodyUnreadable, UrlNotFound, ReadFailed})
       => fetches = 1

\* The whole body was read, no URL was in it, and the run ended on one request.
C14_Witness ==
  /\ imgPc = "done"
  /\ imgError = UrlNotFound
  /\ body = BodyIdOnly
  /\ done
  /\ fetches = 1

\* C15: the five failure conditions (missing prompt, missing API key, non-success
\* status, unreadable body, no URL found) have five pairwise different messages,
\* and the message a failed run ends with identifies the condition that occurred.
C15_DistinctErrorMessages ==
  /\ Cardinality({PromptRequired, ApiKeyRequired, HttpStatusFailed, BodyUnreadable,
                  UrlNotFound}) = 5
  /\ imgPc = "done"
       => /\ imgError = PromptRequired <=> query = ""
          /\ imgError = ApiKeyRequired <=> (query # "" /\ apiKey = "")
          /\ imgError \in {HttpStatusFailed, BodyUnreadable}
               => (fetches = 1 /\ streamPos = 0 /\ ~done /\ fullResponse = <<>>)
          /\ imgError = UrlNotFound
               <=> (fetches = 1 /\ imageUrl = <<>> /\ (done \/ elapsed >= TimeoutTicks)
                    /\ events[Len(events)].error = UrlNotFound)

\* The API key is missing, the prompt is not.
C15_Witness ==
  /\ imgPc = "done"
  /\ query # ""
  /\ apiKey = ""
  /\ imgError = ApiKeyRequired

\* C19: with an empty prompt or an empty API key the invocation fails before any
\* log event is emitted and before any HTTP request is issued, and with both
\* missing it fails with the missing-prompt message.
C19_ValidationFailsFast ==
  (query = "" \/ apiKey = "")
    => /\ events = <<>>
       /\ fetches = 0
       /\ imgPc \in {"start", "done"}
       /\ imgPc = "done"
            => /\ imgOutcome = "thrown"
               /\ imgError = IF query = "" THEN PromptRequired ELSE ApiKeyRequired

\* Both are missing.
C19_Witness ==
  /\ imgPc = "done"
  /\ query = ""
  /\ apiKey = ""
  /\ imgError = PromptRequired
  /\ fetches = 0

\* C20: every failure inside generateImage after input validation (request
\* error, non-success status, unreadable body, no URL found, failure while
\* emitting events) ends in a returned result holding exactly one fallback
\* message; it never propagates as a thrown error.
C20_FailuresBecomeFallbackMessage ==
  (imgPc = "done" /\ query # "" /\ apiKey # "")
    => /\ imgOutcome = "returned"
       /\ Len(imgResult) = 1
       /\ imgError # "" => imgResult = <<FallbackMessage(imgError)>>

\* The artifact and create_node events emitted so far.
ResultEvents == {i \in DOMAIN events : events[i].event \in {"artifact", "create_node"}}

C25_EventsOnlyAfterUrl ==
  /\ [](\A i \in ResultEvents : imageUrl # <<>> /\ events[i].url = imageUrl)
  /\ [][imageUrl # <<>> => imageUrl' = imageUrl]_vars
  /\ [][genId # <<>> => genId' = genId]_vars

\* The first image's URL is kept although the second image marker was read.
C25_Witness ==
  /\ body = BodyTwoImages
  /\ imageUrl = HostImgUrl
  /\ imgPc = "done"
  /\ streamPos >= Len(ImageMarker) + Len(OtherImageMarker)
  /\ Cardinality(ResultEvents) = 2

\* C9: once the timeout has elapsed the read loop is eventually left, also when
\* the stream has stopped delivering chunks, and a run that leaves the loop
\* without a URL ends there, the failure it reports being the URL-not-found
\* failure.
C9_TimeoutEndsReading ==
  /\ ((imgPc \in {"loop", "awaitRead"} /\ elapsed >= TimeoutTicks)
        ~> (imgPc \in {"afterLoop", "done"}))
  /\ [][(imgPc = "afterLoop" /\ imageUrl = <<>>)
          => (imgPc' = "done" /\ (imgOutcome' = "returned" => imgError' = UrlNotFound))]_vars

\* C10: once both imageUrl and genId are set, no further reader.read() is issued
\* and nothing more is taken from the stream.
C10_StopsReadingEarly ==
  [][(imageUrl # <<>> /\ genId # <<>>)
       => (imgPc' # "awaitRead" /\ streamPos' = streamPos /\ fullResponse' = fullResponse)]_vars

\* Both were found while the body still had bytes to deliver.
C10_Witness ==
  /\ imgPc = "done"
  /\ imageUrl # <<>>
  /\ genId # <<>>
  /\ streamPos < Len(body)

\* -------------------------------------------- properties: useDeleteCanvas

\* C26: useDeleteCanvas has at most one delete request in flight at a time: a
\* deleteCanvas call made while an earlier call's request is still awaited
\* issues no second request, however calls, timers, renders and responses
\* interleave.
C26_AtMostOneRequestInFlight == Cardinality(InFlight) <= 1

\* Invocation i of deleteCanvas, which issued a request, runs to its end in this step.
Completes(i) ==
  /\ i \in DOMAIN delCalls
  /\ delCalls[i].state = "awaiting"
  /\ delCalls'[i].state # "awaiting"

\* C27: when a deleteCanvas call that issued a request completes, isRemoving is
\* false, whether the server reported success, reported failure or the request
\* threw; a call returns true only when the server reported success; and the
\* stored currentCanvasId changes only by being removed by a successful call
\* that deleted the canvas with the stored id.
C27_DeleteCanvasCleansUp ==
  [][/\ \A i \in DOMAIN delCalls :
         Completes(i) =>
           /\ isRemoving' = FALSE
           /\ delCalls'[i].response \in DeleteOutcomes
           /\ (delCalls'[i].ret = "true" <=> delCalls'[i].response = "success")
           /\ (delCalls'[i].response = "throws" <=> delCalls'[i].state = "thrown")
     /\ (currentCanvasId' # currentCanvasId =>
           /\ currentCanvasId' = ""
           /\ \E i \in DOMAIN delCalls :
                /\ Completes(i)
                /\ delCalls'[i].response = "success"
                /\ delCalls[i].canvasId = currentCanvasId)
     /\ \A i \in DOMAIN delCalls' :
          delCalls'[i].ret = "true" => delCalls'[i].response = "success"
   ]_vars

\* One call ended on each outcome, the successful one removed the stored id, a
\* successful call for the other canvas had left it alone, and nothing is in flight.
C27_Witness ==
  /\ \A o \in DeleteOutcomes : \E i \in DOMAIN delCalls : delCalls[i].response = o
  /\ InFlight = {}
  /\ isRemoving = FALSE
  /\ currentCanvasId = ""
  /\ location # <<>>

\* ------------------------------------- properties: NewKnowledgeModal.onOk

\* Run i of onOk, whose request was awaited, gets its response in this step.
RequestFinishes(i) ==
  /\ i \in DOMAIN submits
  /\ submits[i].state = "requesting"
  /\ submits'[i].state = "done"

\* C28: a run of onOk whose form validation fails issues no create or update
\* request; when a request has finished confirmLoading is false, whether it
\* succeeded, returned an error result or threw; and the modal is closed and
\* the reload flag of the knowledge-base list is set only by a request that
\* finished without an error.
C28_OnOkOutcomes ==
  [][/\ \A i \in DOMAIN submits :
          (submits[i].state = "validating" /\ submits'[i].settledAs = "invalid")
            => projectRequests' = projectRequests
     /\ Len(projectRequests') =
          Cardinality({i \in DOMAIN submits' :
                         \/ submits'[i].state = "requesting"
                         \/ submits'[i].settledAs \in ProjectOutcomes})
     /\ \A i \in DOMAIN submits : RequestFinishes(i) => confirmLoading' = FALSE
     /\ ((showNewKnowledgeModal' # showNewKnowledgeModal
            \/ reloadKnowledgeBaseList' # reloadKnowledgeBaseList)
          => /\ showNewKnowledgeModal' = FALSE
             /\ reloadKnowledgeBaseList' = TRUE
             /\ \E i \in DOMAIN submits :
                  RequestFinishes(i) /\ submits'[i].settledAs = "ok")
     /\ \A i \in DOMAIN submits :
          (RequestFinishes(i) /\ submits'[i].settledAs = "ok")
            => (showNewKnowledgeModal' = FALSE /\ reloadKnowledgeBaseList' = TRUE)
   ]_vars

\* One run failed validation, one request ended in an error or threw, one
\* succeeded and closed the modal; nothing is awaited.
C28_Witness ==
  /\ \E i \in DOMAIN submits : submits[i].settledAs = "invalid"
  /\ \E i \in DOMAIN submits : submits[i].settledAs \in {"error", "throws"}
  /\ \E i \in DOMAIN submits : submits[i].settledAs = "ok"
  /\ Len(projectRequests) = 2
  /\ confirmLoading = FALSE
  /\ showNewKnowledgeModal = FALSE
  /\ reloadKnowledgeBaseList

====
